---- MODULE Spec2Model ----
(***************************************************************************)
(* Model of convert.py: the Kindle clippings converter.  Strings are       *)
(* sequences of one-character strings, so that split, strip, replace and   *)
(* the regular-expression substitutions are computed as Python computes    *)
(* them.                                                                   *)
(***************************************************************************)
EXTENDS Integers, Sequences, FiniteSets, TLC

VARIABLES
    pc,               \* position of extract_all_highlights
    dir_state,        \* output directory: "exists", "absent", "uncreatable"
    input_state,      \* input file: "ok", "missing", "unreadable"
    content,          \* the text of the input file
    dir_created,      \* os.makedirs has created the output directory
    printed,          \* the messages printed so far
    chunks,           \* content.split('==========')
    ci,               \* index of the next chunk of the parse loop
    book_order,       \* key order of the dict books_highlights
    books_highlights, \* title -> list of records
    bi,               \* index of the next book of the render loop
    successful_docs,
    total_highlights,
    calls,            \* titles create_book_document was invoked with
    results,          \* outcome of each invocation
    files,            \* files of the output directory: name -> document
    doc,              \* the document built by the last invocation
    fn_pc,            \* position of a helper applied on its own
    fn_arg,
    fn_res,
    fn_res2

run_vars == <<pc, dir_state, input_state, content, dir_created, printed, chunks,
              ci, book_order, books_highlights, bi, successful_docs,
              total_highlights, calls, results, files, doc>>
fn_vars == <<fn_pc, fn_arg, fn_res, fn_res2>>
vars == <<run_vars, fn_vars>>

----------------------------------------------------------------------------
(* Bounds of the model *)

MaxChunks == 3
MaxAffix == 2
MaxInfoLen == 4

----------------------------------------------------------------------------
(* Strings *)

\* The whitespace str.strip() and the pattern \s share; of it, the characters
\* the inputs use
Whitespace == {" ", "\t", "\n"}

RECURSIVE LStrip(_)
LStrip(s) ==
    IF s # <<>> /\ Head(s) \in Whitespace THEN LStrip(Tail(s)) ELSE s

RECURSIVE RStrip(_)
RStrip(s) ==
    IF s # <<>> /\ s[Len(s)] \in Whitespace
    THEN RStrip(SubSeq(s, 1, Len(s) - 1))
    ELSE s

\* str.strip()
Strip(s) == RStrip(LStrip(s))

\* str.find(pat) + 1: the first position where pat occurs in s, 0 when none
Find(s, pat) ==
    LET hits == {i \in 1..(Len(s) - Len(pat) + 1) :
                    SubSeq(s, i, i + Len(pat) - 1) = pat}
    IN IF hits = {} THEN 0 ELSE CHOOSE i \in hits : \A j \in hits : i <= j

\* str.split(sep)
RECURSIVE Split(_, _)
Split(s, sep) ==
    LET i == Find(s, sep)
    IN IF i = 0
       THEN <<s>>
       ELSE <<SubSeq(s, 1, i - 1)>> \o Split(SubSeq(s, i + Len(sep), Len(s)), sep)

\* sep.join(parts)
RECURSIVE Join(_, _)
Join(parts, sep) ==
    IF parts = <<>> THEN <<>>
    ELSE IF Len(parts) = 1 THEN parts[1]
    ELSE parts[1] \o sep \o Join(Tail(parts), sep)

\* str.replace(pat, ''): the occurrences are removed left to right, not overlapping
RECURSIVE Remove(_, _)
Remove(s, pat) ==
    LET i == Find(s, pat)
    IN IF i = 0
       THEN s
       ELSE SubSeq(s, 1, i - 1) \o Remove(SubSeq(s, i + Len(pat), Len(s)), pat)

\* c * n
Repeat(c, n) == [i \in 1..n |-> c]

Strings(alphabet, n) == UNION {[1..k -> alphabet] : k \in 0..n}

----------------------------------------------------------------------------
(* sanitize_filename *)

IllegalChars == {"<", ">", ":", "\"", "/", "\\", "|", "?", "*"}

Ellipsis == <<".", ".", ".">>

MaxFilenameLen == 100

IsLegalChar(c) == c \notin IllegalChars

\* re.sub(r'[<>:"/\\|?*]', '', filename)
RemoveIllegal(s) == SelectSeq(s, IsLegalChar)

Truncate(s) == IF Len(s) > MaxFilenameLen THEN SubSeq(s, 1, MaxFilenameLen) ELSE s

sanitize_filename(filename) ==
    Truncate(Strip(Remove(RemoveIllegal(filename), Ellipsis)))

----------------------------------------------------------------------------
(* extract_book_title *)

\* Variant of RemoveParens: only the first match is removed (count=1).
RemoveFirstParen(s) ==
    LET open == Find(s, <<"(">>)
        rest == SubSeq(s, open + 1, Len(s))
        close == Find(rest, <<")">>)
    IN IF open = 0 \/ close = 0
       THEN s
       ELSE SubSeq(s, 1, open - 1) \o SubSeq(rest, close + 1, Len(rest))

\* re.sub(r'\([^)]*\)', '', s): every match, left to right, not overlapping
RECURSIVE RemoveParens(_)
RemoveParens(s) ==
    LET open == Find(s, <<"(">>)
        rest == SubSeq(s, open + 1, Len(s))
        close == Find(rest, <<")">>)
    IN IF open = 0 \/ close = 0
       THEN s
       ELSE SubSeq(s, 1, open - 1)
            \o RemoveParens(SubSeq(rest, close + 1, Len(rest)))

\* re.sub(r'\s+', ' ', s)
RECURSIVE CollapseSpaces(_)
CollapseSpaces(s) ==
    IF s = <<>> THEN <<>>
    ELSE IF Head(s) \in Whitespace
    THEN <<" ">> \o CollapseSpaces(LStrip(s))
    ELSE <<Head(s)>> \o CollapseSpaces(Tail(s))

extract_book_title(book_info) == CollapseSpaces(Strip(RemoveParens(book_info)))

----------------------------------------------------------------------------
(* The parse loop of extract_all_highlights *)

Separator == <<"=", "=", "=", "=", "=", "=", "=", "=", "=", "=">>

Marker == <<"|", " ", "A", "d", "i", "c", "i", "o", "n", "a", "d", "o", ":">>

Newline == <<"\n">>

\* highlight.split('\n') of the stripped chunk
ChunkLines(chunk) == Split(Strip(chunk), Newline)

BookInfo(lines) == IF lines # <<>> THEN lines[1] ELSE <<>>

\* metadata.split("| Adicionado:")[0].strip() when the marker occurs
TrimMetadata(metadata) ==
    IF metadata # <<>> /\ Find(metadata, Marker) # 0
    THEN Strip(SubSeq(metadata, 1, Find(metadata, Marker) - 1))
    ELSE metadata

Metadata(lines) == TrimMetadata(IF Len(lines) > 1 THEN lines[2] ELSE <<>>)

\* Variant of HighlightText: the text is read from the second line on.
HighlightTextFromSecondLine(lines) ==
    IF Len(lines) > 1
    THEN Strip(Join(SubSeq(lines, 2, Len(lines)), Newline))
    ELSE <<>>

HighlightText(lines) ==
    IF Len(lines) > 2
    THEN Strip(Join(SubSeq(lines, 3, Len(lines)), Newline))
    ELSE <<>>

\* Variant of KeepChunk: only the book info is required.
KeepChunkInfoOnly(highlight_text, book_info) == book_info # <<>>

\* if highlight_text and book_info
KeepChunk(highlight_text, book_info) == highlight_text # <<>> /\ book_info # <<>>

Record(lines) ==
    [book_info |-> BookInfo(lines),
     metadata  |-> Metadata(lines),
     text      |-> HighlightText(lines)]

\* Variant of AppendHighlight: the record is put first in its group.
PrependHighlight(group, rec) == <<rec>> \o group

\* books_highlights[book_title].append(...)
AppendHighlight(group, rec) == Append(group, rec)

\* The dict after a record is added under book_title
AddToBooks(books, book_title, rec) ==
    [t \in DOMAIN books \cup {book_title} |->
        IF t = book_title
        THEN AppendHighlight(IF t \in DOMAIN books THEN books[t] ELSE <<>>, rec)
        ELSE books[t]]

\* The dict's key order after book_title is used as a key
AddToOrder(order, books, book_title) ==
    IF book_title \in DOMAIN books THEN order ELSE Append(order, book_title)

----------------------------------------------------------------------------
(* create_book_document *)

TitleRuleLen == 50
EntryRuleLen == 30

Heading(text, level) ==
    [kind |-> "heading", level |-> level, text |-> text, italic |-> FALSE]

Paragraph(text, italic) ==
    [kind |-> "paragraph", level |-> 0, text |-> text, italic |-> italic]

PageBreak ==
    [kind |-> "page_break", level |-> 0, text |-> <<>>, italic |-> FALSE]

DigitChars == <<"0", "1", "2", "3", "4", "5", "6", "7", "8", "9">>

\* str(n) of a natural number
RECURSIVE Decimal(_)
Decimal(n) ==
    IF n < 10
    THEN <<DigitChars[n + 1]>>
    ELSE Decimal(n \div 10) \o <<DigitChars[(n % 10) + 1]>>

TitlePrefix ==
    <<"K", "i", "n", "d", "l", "e", " ", "H", "i", "g", "h", "l", "i", "g",
      "h", "t", "s", " ", "-", " ">>

\* "Generated on: " and the date; the clock's value is left as its format
GeneratedOn ==
    <<"G", "e", "n", "e", "r", "a", "t", "e", "d", " ", "o", "n", ":", " ",
      "%", "d", "/", "%", "m", "/", "%", "Y", " ", "a", "t", " ", "%", "H",
      ":", "%", "M">>

HighlightPrefix == <<"H", "i", "g", "h", "l", "i", "g", "h", "t", " ">>

SummaryTitle == <<"S", "u", "m", "m", "a", "r", "y">>

TotalPrefix ==
    <<"T", "o", "t", "a", "l", " ", "h", "i", "g", "h", "l", "i", "g", "h",
      "t", "s", " ", "e", "x", "t", "r", "a", "c", "t", "e", "d", ":", " ">>

FileSuffix ==
    <<"_", "H", "i", "g", "h", "l", "i", "g", "h", "t", "s", ".", "d", "o",
      "c", "x">>

Quoted(text) == <<"\"">> \o text \o <<"\"">>

\* Variant of NeedsSeparator: a separator follows every record.
NeedsSeparatorAlways(i, n) == i <= n

\* if i < len(highlights)
NeedsSeparator(i, n) == i < n

\* The body of the loop over enumerate(highlights, 1), from index i on
RECURSIVE Entries(_, _)
Entries(highlights, i) ==
    IF i > Len(highlights)
    THEN <<>>
    ELSE <<Heading(HighlightPrefix \o Decimal(i), 2)>>
         \o (IF highlights[i].metadata # <<>>
             THEN <<Paragraph(highlights[i].metadata, TRUE)>>
             ELSE <<>>)
         \o <<Paragraph(Quoted(highlights[i].text), FALSE)>>
         \o (IF NeedsSeparator(i, Len(highlights))
             THEN <<Paragraph(Repeat("-", EntryRuleLen), FALSE)>>
             ELSE <<>>)
         \o Entries(highlights, i + 1)

\* The document built before it is saved
BuildDocument(book_title, highlights) ==
    <<Heading(TitlePrefix \o book_title, 0),
      Paragraph(GeneratedOn, FALSE),
      Paragraph(Repeat("=", TitleRuleLen), FALSE)>>
    \o Entries(highlights, 1)
    \o <<PageBreak,
         Heading(SummaryTitle, 1),
         Paragraph(TotalPrefix \o Decimal(Len(highlights)), FALSE)>>

Filename(book_title) == sanitize_filename(book_title) \o FileSuffix

\* The output directory after doc.save(filepath) succeeded
SaveFile(fs, name, document) ==
    [f \in DOMAIN fs \cup {name} |-> IF f = name THEN document ELSE fs[f]]

\* Variant of CountIfSaved: every invocation is counted as a success.
CountAlways(count, ok, amount) == count + amount

\* if create_book_document(...): count += amount
CountIfSaved(count, ok, amount) == IF ok THEN count + amount ELSE count

----------------------------------------------------------------------------
(* Inputs *)

DirStates == {"exists", "absent", "uncreatable"}
InputStates == {"ok", "missing", "unreadable"}
Outcomes == {"saved", "save_failed", "raised"}

\* The chunks input files are made of, each a list of lines
InputChunks ==
    {<<<<"A", " ", "(", "x", ")", " ", "C">>, <<"p">>, <<"t">>>>,
     <<<<"A", ":", " ", "C">>, <<"p", " ">> \o Marker \o <<" ", "d">>, <<"u">>>>,
     <<<<"A", " ", "C">>, <<>>, <<"t">>, <<"u">>>>,
     <<<<"B">>>>,
     <<<<"B">>, <<"t">>>>,
     <<<<"B">>, <<"p">>, <<"t">>>>}

\* The file text of a list of chunks: each is followed by a separator line
RECURSIVE FileText(_)
FileText(cs) ==
    IF cs = <<>>
    THEN <<>>
    ELSE Join(Head(cs), Newline) \o Newline \o Separator \o Newline
         \o FileText(Tail(cs))

Contents == {FileText(cs) : cs \in Strings(InputChunks, MaxChunks)}

SanitizeAlphabet == {"a", " ", ".", ":"}

\* Short strings, and strings about MaxFilenameLen long
SanitizeInputs ==
    {pre \o Repeat("a", n) \o suf :
        pre \in Strings(SanitizeAlphabet, MaxAffix),
        suf \in Strings(SanitizeAlphabet, MaxAffix),
        n \in {0, MaxFilenameLen - MaxAffix}}

InfoAlphabet == {"a", "(", ")", " ", "\t"}

InfoInputs == Strings(InfoAlphabet, MaxInfoLen)

----------------------------------------------------------------------------
(* extract_all_highlights *)

RunIdle ==
    /\ pc = "idle"
    /\ dir_state = "exists"
    /\ input_state = "ok"
    /\ content = <<>>

RunStart ==
    /\ dir_created = FALSE
    /\ printed = <<>>
    /\ chunks = <<>>
    /\ ci = 1
    /\ book_order = <<>>
    /\ books_highlights = <<>>
    /\ bi = 1
    /\ successful_docs = 0
    /\ total_highlights = 0
    /\ calls = <<>>
    /\ results = <<>>
    /\ files = <<>>
    /\ doc = <<>>

FnIdle ==
    /\ fn_pc = "idle"
    /\ fn_arg = <<>>
    /\ fn_res = <<>>
    /\ fn_res2 = <<>>

Init ==
    /\ pc = "start"
    /\ dir_state \in DirStates
    /\ input_state \in InputStates
    /\ \/ input_state = "ok" /\ content \in Contents
       \/ input_state # "ok" /\ content = <<>>
    /\ RunStart
    /\ FnIdle

\* os.path.exists(output_dir) is true
DirExists ==
    /\ pc = "start"
    /\ dir_state = "exists"
    /\ pc' = "read"
    /\ UNCHANGED <<dir_state, input_state, content, dir_created, printed, chunks,
                   ci, book_order, books_highlights, bi, successful_docs,
                   total_highlights, calls, results, files, doc, fn_vars>>

\* os.makedirs(output_dir) succeeds
MakeDirs ==
    /\ pc = "start"
    /\ dir_state = "absent"
    /\ dir_state' = "exists"
    /\ dir_created' = TRUE
    /\ printed' = Append(printed, "created_directory")
    /\ pc' = "read"
    /\ UNCHANGED <<input_state, content, chunks, ci, book_order,
                   books_highlights, bi, successful_docs, total_highlights,
                   calls, results, files, doc, fn_vars>>

\* os.makedirs(output_dir) raises: nothing catches it
MakeDirsRaises ==
    /\ pc = "start"
    /\ dir_state = "uncreatable"
    /\ pc' = "raised"
    /\ UNCHANGED <<dir_state, input_state, content, dir_created, printed, chunks,
                   ci, book_order, books_highlights, bi, successful_docs,
                   total_highlights, calls, results, files, doc, fn_vars>>

\* The file is read and split
ReadInput ==
    /\ pc = "read"
    /\ input_state = "ok"
    /\ chunks' = Split(content, Separator)
    /\ ci' = 1
    /\ pc' = "parse"
    /\ UNCHANGED <<dir_state, input_state, content, dir_created, printed,
                   book_order, books_highlights, bi, successful_docs,
                   total_highlights, calls, results, files, doc, fn_vars>>

\* except FileNotFoundError
ReadInputNotFound ==
    /\ pc = "read"
    /\ input_state = "missing"
    /\ printed' = Append(printed, "error_not_found")
    /\ pc' = "returned"
    /\ UNCHANGED <<dir_state, input_state, content, dir_created, chunks, ci,
                   book_order, books_highlights, bi, successful_docs,
                   total_highlights, calls, results, files, doc, fn_vars>>

\* except Exception
ReadInputError ==
    /\ pc = "read"
    /\ input_state = "unreadable"
    /\ printed' = Append(printed, "error_reading")
    /\ pc' = "returned"
    /\ UNCHANGED <<dir_state, input_state, content, dir_created, chunks, ci,
                   book_order, books_highlights, bi, successful_docs,
                   total_highlights, calls, results, files, doc, fn_vars>>

\* One iteration of the loop over the chunks
ParseChunk ==
    /\ pc = "parse"
    /\ ci <= Len(chunks)
    /\ LET highlight == Strip(chunks[ci])
           lines == ChunkLines(chunks[ci])
           rec == Record(lines)
           book_title == extract_book_title(rec.book_info)
       IN IF highlight # <<>> /\ KeepChunk(rec.text, rec.book_info)
          THEN /\ books_highlights' = AddToBooks(books_highlights, book_title, rec)
               /\ book_order' = AddToOrder(book_order, books_highlights, book_title)
          ELSE UNCHANGED <<books_highlights, book_order>>
    /\ ci' = ci + 1
    /\ UNCHANGED <<pc, dir_state, input_state, content, dir_created, printed,
                   chunks, bi, successful_docs, total_highlights, calls, results,
                   files, doc, fn_vars>>

\* if not books_highlights: return
NoHighlights ==
    /\ pc = "parse"
    /\ ci > Len(chunks)
    /\ book_order = <<>>
    /\ printed' = Append(printed, "no_highlights_found")
    /\ pc' = "returned"
    /\ UNCHANGED <<dir_state, input_state, content, dir_created, chunks, ci,
                   book_order, books_highlights, bi, successful_docs,
                   total_highlights, calls, results, files, doc, fn_vars>>

StartRender ==
    /\ pc = "parse"
    /\ ci > Len(chunks)
    /\ book_order # <<>>
    /\ printed' = Append(printed, "found_books")
    /\ successful_docs' = 0
    /\ total_highlights' = 0
    /\ bi' = 1
    /\ pc' = "render"
    /\ UNCHANGED <<dir_state, input_state, content, dir_created, chunks, ci,
                   book_order, books_highlights, calls, results, files, doc,
                   fn_vars>>

\* One iteration of the loop over books_highlights.items(): the call of
\* create_book_document and the counting of its result
CreateBookDocument ==
    /\ pc = "render"
    /\ bi <= Len(book_order)
    /\ LET book_title == book_order[bi]
           highlights == books_highlights[book_title]
       IN \E outcome \in Outcomes :
            /\ calls' = Append(calls, book_title)
            /\ results' = Append(results, outcome)
            /\ \/ /\ outcome = "raised"
                  /\ pc' = "raised"
                  /\ UNCHANGED <<doc, files, printed, successful_docs,
                                 total_highlights, bi>>
               \/ /\ outcome = "saved"
                  /\ doc' = BuildDocument(book_title, highlights)
                  /\ files' = SaveFile(files, Filename(book_title), doc')
                  /\ printed' = Append(printed, "document_saved")
                  /\ successful_docs' = CountIfSaved(successful_docs, TRUE, 1)
                  /\ total_highlights' =
                        CountIfSaved(total_highlights, TRUE, Len(highlights))
                  /\ bi' = bi + 1
                  /\ pc' = pc
               \/ /\ outcome = "save_failed"
                  /\ doc' = BuildDocument(book_title, highlights)
                  /\ printed' = Append(printed, "error_saving")
                  /\ successful_docs' = CountIfSaved(successful_docs, FALSE, 1)
                  /\ total_highlights' =
                        CountIfSaved(total_highlights, FALSE, Len(highlights))
                  /\ bi' = bi + 1
                  /\ pc' = pc
                  /\ UNCHANGED files
    /\ UNCHANGED <<dir_state, input_state, content, dir_created, chunks, ci,
                   book_order, books_highlights, fn_vars>>

PrintSummary ==
    /\ pc = "render"
    /\ bi > Len(book_order)
    /\ printed' = Append(printed, "summary")
    /\ pc' = "done"
    /\ UNCHANGED <<dir_state, input_state, content, dir_created, chunks, ci,
                   book_order, books_highlights, bi, successful_docs,
                   total_highlights, calls, results, files, doc, fn_vars>>

Next ==
    \/ DirExists
    \/ MakeDirs
    \/ MakeDirsRaises
    \/ ReadInput
    \/ ReadInputNotFound
    \/ ReadInputError
    \/ ParseChunk
    \/ NoHighlights
    \/ StartRender
    \/ CreateBookDocument
    \/ PrintSummary

Spec == Init /\ [][Next]_vars

----------------------------------------------------------------------------
(* sanitize_filename and extract_book_title applied on their own *)

InitSanitize ==
    /\ RunIdle
    /\ RunStart
    /\ fn_pc = "arg"
    /\ fn_arg \in SanitizeInputs
    /\ fn_res = <<>>
    /\ fn_res2 = <<>>

ApplySanitize ==
    /\ fn_pc = "arg"
    /\ fn_res' = sanitize_filename(fn_arg)
    /\ fn_pc' = "sanitized"
    /\ UNCHANGED <<fn_arg, fn_res2, run_vars>>

ApplySanitizeAgain ==
    /\ fn_pc = "sanitized"
    /\ fn_res2' = sanitize_filename(fn_res)
    /\ fn_pc' = "sanitized_twice"
    /\ UNCHANGED <<fn_arg, fn_res, run_vars>>

NextSanitize == ApplySanitize \/ ApplySanitizeAgain

SpecSanitize == InitSanitize /\ [][NextSanitize]_vars

InitTitle ==
    /\ RunIdle
    /\ RunStart
    /\ fn_pc = "arg"
    /\ fn_arg \in InfoInputs
    /\ fn_res = <<>>
    /\ fn_res2 = <<>>

ApplyTitle ==
    /\ fn_pc = "arg"
    /\ fn_res' = extract_book_title(fn_arg)
    /\ fn_pc' = "titled"
    /\ UNCHANGED <<fn_arg, fn_res2, run_vars>>

ApplyTitleAgain ==
    /\ fn_pc = "titled"
    /\ fn_res2' = extract_book_title(fn_res)
    /\ fn_pc' = "titled_twice"
    /\ UNCHANGED <<fn_arg, fn_res, run_vars>>

NextTitle == ApplyTitle \/ ApplyTitleAgain

SpecTitle == InitTitle /\ [][NextTitle]_vars

----------------------------------------------------------------------------
(* Claims *)

Range(f) == {f[i] : i \in DOMAIN f}

AllSaved == \A i \in DOMAIN results : results[i] = "saved"

\* The chunk's text and book-info line are both non-empty
PassesCheck(chunk) ==
    /\ Strip(chunk) # <<>>
    /\ BookInfo(ChunkLines(chunk)) # <<>>
    /\ HighlightText(ChunkLines(chunk)) # <<>>

\* The chunk is a book-info line directly followed by one line of text
IsTwoLineChunk(chunk) == Strip(chunk) # <<>> /\ Len(ChunkLines(chunk)) = 2

\* The records of the chunks 1..n that pass the check, in source order
RECURSIVE KeptRecords(_)
KeptRecords(n) ==
    IF n = 0 THEN <<>>
    ELSE IF PassesCheck(chunks[n])
    THEN Append(KeptRecords(n - 1), Record(ChunkLines(chunks[n])))
    ELSE KeptRecords(n - 1)

TitleOf(rec) == extract_book_title(rec.book_info)

\* The records of recs whose derived title is t, in order
RECURSIVE RecordsOf(_, _)
RecordsOf(recs, t) ==
    IF recs = <<>> THEN <<>>
    ELSE IF TitleOf(Head(recs)) = t
    THEN <<Head(recs)>> \o RecordsOf(Tail(recs), t)
    ELSE RecordsOf(Tail(recs), t)

FirstIndex(recs, t) ==
    CHOOSE i \in 1..Len(recs) :
        TitleOf(recs[i]) = t /\ \A j \in 1..(i - 1) : TitleOf(recs[j]) # t

RECURSIVE SumOver(_, _)
SumOver(f, S) ==
    IF S = {} THEN 0
    ELSE LET x == CHOOSE y \in S : TRUE IN f[x] + SumOver(f, S \ {x})

GroupSizes == [t \in DOMAIN books_highlights |-> Len(books_highlights[t])]

\* C1: after a run whose input was read and whose saves all succeeded, the
\* output directory holds as many document files as there are distinct
\* derived titles with a kept record.
C1_OneDocumentPerTitle ==
    (pc = "done" /\ AllSaved)
        => Cardinality(DOMAIN files) = Cardinality(DOMAIN books_highlights)

\* C2: when the input is missing or unreadable the run writes nothing: it
\* creates neither the output directory nor a document.
C2_NoWriteOnUnreadableInput ==
    input_state # "ok" => (~dir_created /\ DOMAIN files = {})

\* C3: whatever the pattern of save failures, every group is handed to
\* create_book_document exactly once and in order, a failed save is followed
\* by the rest of the batch, and the two counters count exactly the books
\* whose save succeeded and their highlights.
C3_SaveFailuresNeverAbort ==
    LET saved == {i \in DOMAIN results : results[i] = "saved"}
        sizes == [i \in DOMAIN results |-> Len(books_highlights[calls[i]])]
    IN /\ Len(calls) = Len(results)
       /\ (results # <<>> /\ results[Len(results)] = "save_failed")
            => pc \in {"render", "done"}
       /\ pc \in {"render", "done"} =>
            /\ calls = SubSeq(book_order, 1, bi - 1)
            /\ successful_docs = Cardinality(saved)
            /\ total_highlights = SumOver(sizes, saved)
       /\ pc = "done" => calls = book_order

\* C3 witness: the first book's save failed, the second book was saved and
\* counted, and the run finished
C3_FailedThenSaved ==
    /\ pc = "done"
    /\ Len(results) >= 2
    /\ results[1] = "save_failed"
    /\ results[2] = "saved"
    /\ successful_docs = 1

\* C4: no failure of a file-system or document step leaves
\* extract_all_highlights as an exception.
C4_NoExceptionPropagates == pc # "raised"

\* C5: the groups are keyed by derived title and ordered by the first
\* appearance of their title among the kept chunks, each group holds its
\* records in source order, and create_book_document is invoked on the
\* groups in that order.
C5_GroupedInSourceOrder ==
    LET recs == KeptRecords(ci - 1)
    IN /\ DOMAIN books_highlights = {TitleOf(recs[i]) : i \in DOMAIN recs}
       /\ Range(book_order) = DOMAIN books_highlights
       /\ Len(book_order) = Cardinality(DOMAIN books_highlights)
       /\ \A a, b \in DOMAIN book_order :
            a < b => FirstIndex(recs, book_order[a]) < FirstIndex(recs, book_order[b])
       /\ \A t \in DOMAIN books_highlights :
            books_highlights[t] = RecordsOf(recs, t)
       /\ calls = SubSeq(book_order, 1, Len(calls))
       /\ pc = "done" => calls = book_order

\* C5 witness: two chunks with different book-info lines and one derived title ended in
\* one group, in source order
C5_MergedGroup ==
    /\ pc = "done"
    /\ Len(book_order) = 1
    /\ LET g == books_highlights[book_order[1]]
       IN /\ Len(g) = 2
          /\ g[1].book_info # g[2].book_info
          /\ g[1].text = <<"t">>
          /\ g[2].text = <<"t", "\n", "u">>

\* C6: every stored record has text and book info, sits in the group of its
\* own title, and the group sizes add up to the number of processed chunks
\* whose text and book-info line are both non-empty.
C6_KeptRecordsNonEmpty ==
    /\ \A t \in DOMAIN books_highlights :
         \A k \in DOMAIN books_highlights[t] :
            /\ books_highlights[t][k].text # <<>>
            /\ books_highlights[t][k].book_info # <<>>
            /\ TitleOf(books_highlights[t][k]) = t
    /\ SumOver(GroupSizes, DOMAIN books_highlights)
         = Cardinality({i \in 1..(ci - 1) : PassesCheck(chunks[i])})

\* C6 witness: a chunk holding only a book-info line was processed, and so was a kept one
C6_InfoOnlyChunkDropped ==
    /\ pc = "parse"
    /\ ci > Len(chunks)
    /\ \E i \in 1..(ci - 1) : Len(ChunkLines(chunks[i])) = 1 /\ Strip(chunks[i]) # <<>>
    /\ book_order # <<>>

\* C7 as stated: a processed chunk of a book-info line directly followed by
\* the text is kept as a record with empty metadata and that text.
C7_TwoLineChunkKept ==
    \A i \in 1..(ci - 1) :
        IsTwoLineChunk(chunks[i]) =>
            \E t \in DOMAIN books_highlights :
                [book_info |-> ChunkLines(chunks[i])[1],
                 metadata  |-> <<>>,
                 text      |-> ChunkLines(chunks[i])[2]]
                    \in Range(books_highlights[t])

\* C7 amended: the parse step that processes a chunk of a book-info line
\* directly followed by the text adds no record to any group.
C7_TwoLineChunkDropped ==
    [][(pc = "parse" /\ ci <= Len(chunks) /\ IsTwoLineChunk(chunks[ci]))
         => (books_highlights' = books_highlights /\ book_order' = book_order)]_vars

\* C7 witness: the parse loop has just processed such a chunk
C7_TwoLineChunkProcessed ==
    /\ pc = "parse"
    /\ ci > 1
    /\ IsTwoLineChunk(chunks[ci - 1])

\* C8: sanitize_filename applied to its own result returns that result.
C8_SanitizeIdempotent ==
    fn_pc = "sanitized_twice" => sanitize_filename(fn_res) = fn_res /\ fn_res2 = fn_res

\* C9: extract_book_title applied to its own result returns that result.
C9_TitleIdempotent == fn_pc = "titled_twice" => fn_res2 = fn_res

\* C9 witness: a book info with an unbalanced parenthesis and a tab went through twice
C9_UnbalancedWithTab ==
    /\ fn_pc = "titled_twice"
    /\ "\t" \in Range(fn_arg)
    /\ "(" \in Range(fn_res)
    /\ fn_res # fn_arg

\* C10: the document of a group of n records is the title, the timestamp and
\* the 50-'=' line, then for i = 1..n the heading 'Highlight i', the italic
\* metadata iff it is non-empty, the quoted text and, except after the last
\* record, a 30-'-' line, then the page break and the summary with count n.
C10_DocumentLayout ==
    (results # <<>> /\ results[Len(results)] # "raised") =>
        LET title == calls[Len(calls)]
            hs == books_highlights[title]
            n == Len(hs)
            size == [j \in 1..n |->
                        2 + (IF hs[j].metadata # <<>> THEN 1 ELSE 0)
                          + (IF j < n THEN 1 ELSE 0)]
            pos == [i \in 1..n |-> 4 + SumOver(size, 1..(i - 1))]
            rule == Paragraph(Repeat("-", 30), FALSE)
        IN /\ n >= 1
           /\ Len(doc) = 3 + SumOver(size, 1..n) + 3
           /\ doc[1] = Heading(TitlePrefix \o title, 0)
           /\ doc[2] = Paragraph(GeneratedOn, FALSE)
           /\ doc[3] = Paragraph(Repeat("=", 50), FALSE)
           /\ \A i \in 1..n :
                /\ doc[pos[i]] = Heading(HighlightPrefix \o Decimal(i), 2)
                /\ IF hs[i].metadata # <<>>
                   THEN /\ doc[pos[i] + 1] = Paragraph(hs[i].metadata, TRUE)
                        /\ doc[pos[i] + 2] = Paragraph(Quoted(hs[i].text), FALSE)
                   ELSE doc[pos[i] + 1] = Paragraph(Quoted(hs[i].text), FALSE)
                /\ i < n => doc[pos[i + 1] - 1] = rule
           /\ Cardinality({k \in DOMAIN doc : doc[k].kind = "heading" /\ doc[k].level = 2}) = n
           /\ Cardinality({k \in DOMAIN doc : doc[k] = rule}) = n - 1
           /\ Cardinality({k \in DOMAIN doc : doc[k].italic}) =
                Cardinality({i \in 1..n : hs[i].metadata # <<>>})
           /\ doc[Len(doc) - 2] = PageBreak
           /\ doc[Len(doc) - 1] = Heading(SummaryTitle, 1)
           /\ doc[Len(doc)] = Paragraph(TotalPrefix \o Decimal(n), FALSE)

\* C10 witness: a group of two records, one with metadata and one without, was rendered
C10_MixedGroupRendered ==
    /\ results # <<>>
    /\ results[Len(results)] = "saved"
    /\ LET hs == books_highlights[calls[Len(calls)]]
       IN /\ Len(hs) = 2
          /\ hs[1].metadata # <<>>
          /\ hs[2].metadata = <<>>

====
